---- MODULE Spec2Model ----
(***************************************************************************)
(* sync.Pool (go-1.15): per-P shards, stealing, victim generation and the  *)
(* pool registry rotated by poolCleanup.                                    *)
(*                                                                         *)
(* Goroutines run Put and Get one shared-memory access at a time: a step   *)
(* is one access to memory another goroutine can touch, together with the  *)
(* accesses to the goroutine's own shard and frame around it.  A goroutine *)
(* is pinned to a P between runtime_procPin and runtime_procUnpin; the     *)
(* world can only be stopped (poolCleanup, a change of GOMAXPROCS) while   *)
(* no goroutine is pinned.  Shard tables live in a heap of references,     *)
(* because a pinned goroutine may still hold a table that pinSlow has      *)
(* replaced, and because a Pool copied by value shares its table with the  *)
(* original.                                                               *)
(***************************************************************************)
EXTENDS Integers, Sequences, FiniteSets, TLC

\* ---------------------------------------------------------------- bounds
NGoroutines == 2          \* goroutines that call the pools
MaxProcs    == 2          \* largest value GOMAXPROCS is ever set to
NItems      == 2          \* distinct objects the clients hand to Put
NPools      == 1          \* Pool values in the program
MaxHist     == 3          \* length of the recorded sequential history

Goroutines == 1..NGoroutines
Pools      == 1..NPools                 \* the pools the program declares
Dup        == NPools + 1                \* one more Pool variable: q, for q = *p
PoolIds    == Pools \cup {Dup}
Items      == 1..NItems
TableIds   == 1..(2 * (NPools + 1) + 2 * NGoroutines)

\* ---------------------------------------------------------------- values
Nil      == 0             \* the nil interface value, and the nil table pointer
NoPid    == 0 - 1         \* the goroutine is not pinned
NewVal   == NItems + 1    \* the value p.New() constructs
NoShard  == [private |-> Nil, shared |-> <<>>]

VARIABLES
    pool,        \* pool[p]: local, localSize, victim, victimSize, New
    heap,        \* heap[a]: the []poolLocal allocated at a (<<>>: not allocated)
    allPools,    \* registry of pools with a primary cache
    oldPools,    \* registry of pools that may have a victim cache
    allPoolsMu,  \* 0, or the goroutine holding the mutex
    gomaxprocs,  \* the runtime's number of Ps
    g,           \* g[t]: the goroutine's frame (pc, receiver, locals)
    held,        \* held[x]: references to x in the hands of the clients
    home,        \* home[x]: the pool x was last passed to (0: none since it came back)
    age,         \* age[x]: rotations since x was last stored by a Put (capped)
    hist,        \* the operations so far, while they ran one after another
    seq,         \* TRUE while hist is the complete history of the program
    hp,          \* container/heap: the slice behind the heap.Interface h
    hres,        \* container/heap: the last call, its argument and its result
    el,          \* container/list: el[e]: the fields next, prev, list of Element e
    llen,        \* container/list: llen[l]: the field len of List l
    lres         \* container/list: the last call and its arguments

\* The state of the other packages, which the pools never touch.
containers == <<hp, hres, el, llen, lres>>

vars == <<pool, heap, allPools, oldPools, allPoolsMu, gomaxprocs, g, held, home,
          age, hist, seq, containers>>

\* ------------------------------------------------------- poolChain (deque)
\* A chain is the sequence of its items, tail (oldest) first, head last.
pushHead(c, x) == Append(c, x)

popHead(c) ==
    IF c = <<>> THEN [x |-> Nil, c |-> c]
    ELSE [x |-> c[Len(c)], c |-> SubSeq(c, 1, Len(c) - 1)]

popTail(c) ==
    IF c = <<>> THEN [x |-> Nil, c |-> c]
    ELSE [x |-> Head(c), c |-> Tail(c)]

\* ------------------------------------------------------------- the heap
\* indexLocal(l, i): the shard i of the table at l.  Valid only inside the
\* allocation; anything else is an out-of-bounds dereference.
InBounds(l, i) == l \in TableIds /\ i >= 0 /\ i < Len(heap[l])
indexLocal(l, i) == heap[l][i + 1]

\* A store that lands in every shard of the table.
Store_all(h, l, i, sh) == [h EXCEPT ![l] = [k \in 1..Len(@) |-> sh]]

\* The heap with shard i of table l replaced by sh.
Store(h, l, i, sh) == [h EXCEPT ![l] = [@ EXCEPT ![i + 1] = sh]]

\* make([]poolLocal, size)
makeLocal(size) == [k \in 1..size |-> NoShard]

\* Tables reachable from a pool or from a goroutine's frame.
Live(pl, gs) ==
    {pl[p].local : p \in PoolIds} \cup {pl[p].victim : p \in PoolIds}
        \cup {gs[t].l : t \in Goroutines} \cup {gs[t].locals : t \in Goroutines}

\* The collector frees what nothing references.
Collect(h, pl, gs) ==
    [a \in TableIds |-> IF a \in Live(pl, gs) THEN h[a] ELSE <<>>]

\* The address the allocator hands out next.
NewAddr(h) == CHOOSE a \in TableIds : h[a] = <<>> /\ \A b \in TableIds : h[b] = <<>> => a <= b

\* ------------------------------------------------------------ goroutines
Idle == [pc |-> "idle", op |-> "none", p |-> 0, pid |-> NoPid, at |-> NoPid,
         x |-> Nil, s |-> 0, l |-> Nil, size |-> 0, locals |-> Nil, i |-> 0]

Pinned(t) == g[t].pid # NoPid
NobodyPinned == \A t \in Goroutines : ~Pinned(t)

\* runtime_procPin: the id of the P the goroutine runs on; two goroutines
\* are never pinned to one P at the same time.
FreePs == {q \in 0..(gomaxprocs - 1) : \A t \in Goroutines : g[t].pid # q}

\* The zero Pool, configured with a factory (New # nil) or without.
ZeroPool(hasNew) == [local |-> Nil, localSize |-> 0, victim |-> Nil,
                     victimSize |-> 0, New |-> hasNew]

Init ==
    /\ \E f \in [Pools -> BOOLEAN] :
         pool = [p \in PoolIds |-> ZeroPool(p \in Pools /\ f[p])]
    /\ heap = [a \in TableIds |-> <<>>]
    /\ allPools = <<>>
    /\ oldPools = <<>>
    /\ allPoolsMu = 0
    /\ gomaxprocs \in 1..MaxProcs
    /\ g = [t \in Goroutines |-> Idle]
    /\ held = [x \in Items |-> 1]
    /\ home = [x \in Items |-> 0]
    /\ age = [x \in Items |-> 0]
    /\ hist = <<>>
    /\ seq = TRUE
    /\ hp = <<>>
    /\ hres = [op |-> "none", i |-> 0, x |-> 0, before |-> <<>>]
    /\ el = <<>> /\ llen = <<>>
    /\ lres = [op |-> "none", l |-> 0, e |-> 0, mark |-> 0]

\* ---------------------------------------------------------------- history
\* An event of the history: operation, pool, shard index, value, and the
\* place the value went to or came from.  For GOMAXPROCS(n), pid is n and x
\* is the previous setting, which the call returns.
Event(op, p, pid, x, src) == [op |-> op, p |-> p, pid |-> pid, x |-> x, src |-> src]

\* hist records the operations in the order they ran as long as none of them
\* overlapped another and there is room; after that it is given up.
Log(t, ev) ==
    IF seq /\ Len(hist) < MaxHist /\ \A u \in Goroutines \ {t} : g[u].pc = "idle"
    THEN hist' = Append(hist, ev) /\ seq' = TRUE
    ELSE hist' = <<>> /\ seq' = FALSE

\* Items held somewhere in the heap h.
RECURSIVE Range(_)
Range(c) == IF c = <<>> THEN {} ELSE {Head(c)} \cup Range(Tail(c))

Stored(h) ==
    {x \in Items : \E a \in TableIds : \E k \in 1..Len(h[a]) :
        h[a][k].private = x \/ x \in Range(h[a][k].shared)}

\* Ages are kept for the items a table holds.
Ages(a, h) == [x \in Items |-> IF x \in Stored(h) THEN a[x] ELSE 0]

\* A step of a goroutine leaves the ages of the items still stored.
Aged == age' = Ages(age, heap')

\* Where pin's caller continues.
AfterPin(t) == IF g[t].op = "Put" THEN "Put_store" ELSE "Get_local"

\* ------------------------------------------------------------------ pin
\* pin, lines 156-161: runtime_procPin and the load of localSize.
PinFrame(op, p, x, pid) ==
    [Idle EXCEPT !.pc = "pin_l", !.op = op, !.p = p, !.x = x, !.pid = pid,
                 !.s = pool[p].localSize]

\* The fast-path test with the bound off by one: pid <= s.
pinFast_le(pid, s) == pid <= s

\* pin's fast-path test (lines 163 and 179).
pinFast(pid, s) == pid < s

\* pin that loads the victim table, when there is one, instead of local.
pin_l_victim(t) ==
    /\ g[t].pc = "pin_l"
    /\ g' = IF pinFast(g[t].pid, g[t].s)
            THEN [g EXCEPT ![t].l = IF pool[g[t].p].victim # Nil
                                    THEN pool[g[t].p].victim
                                    ELSE pool[g[t].p].local,
                           ![t].s = 0, ![t].pc = AfterPin(t)]
            ELSE [g EXCEPT ![t].pid = NoPid, ![t].s = 0, ![t].pc = "pinSlow_lock"]
    /\ UNCHANGED <<pool, heap, allPools, oldPools, allPoolsMu, gomaxprocs, held, home, hist, seq>>
    /\ Aged
    /\ UNCHANGED containers

\* pin that enters pinSlow without the runtime_procUnpin of line 172.
pin_l_pinned(t) ==
    /\ g[t].pc = "pin_l"
    /\ g' = IF pinFast(g[t].pid, g[t].s)
            THEN [g EXCEPT ![t].l = pool[g[t].p].local, ![t].s = 0,
                           ![t].pc = AfterPin(t)]
            ELSE [g EXCEPT ![t].s = 0, ![t].pc = "pinSlow_lock"]
    /\ UNCHANGED <<pool, heap, allPools, oldPools, allPoolsMu, gomaxprocs, held, home, hist, seq>>
    /\ Aged
    /\ UNCHANGED containers

\* pin, lines 162-166, and pinSlow, line 172: the load of local; on the slow
\* path the goroutine unpins before it takes the mutex.
pin_l(t) ==
    /\ g[t].pc = "pin_l"
    /\ g' = IF pinFast(g[t].pid, g[t].s)
            THEN [g EXCEPT ![t].l = pool[g[t].p].local, ![t].s = 0,
                           ![t].pc = AfterPin(t)]
            ELSE [g EXCEPT ![t].pid = NoPid, ![t].s = 0, ![t].pc = "pinSlow_lock"]
    /\ UNCHANGED <<pool, heap, allPools, oldPools, allPoolsMu, gomaxprocs, held, home, hist, seq>>
    /\ Aged
    /\ UNCHANGED containers

\* pinSlow without the test of line 182: registered at every allocation.
Register_always(ps, p, local) == Append(ps, p)

\* pinSlow, lines 182-184: the pool is registered when it has no table.
Register(ps, p, local) == IF local = Nil THEN Append(ps, p) ELSE ps

\* pinSlow with the two stores in the wrong order: the size is published at
\* the place of the pointer.
pinSlow_lock_sizefirst(t) ==
    /\ g[t].pc = "pinSlow_lock"
    /\ allPoolsMu = 0
    /\ \E pid \in FreePs :
         LET p == g[t].p
             s == pool[p].localSize
             l == pool[p].local
             a == NewAddr(heap)
         IN IF pinFast(pid, s)
            THEN /\ g' = [g EXCEPT ![t].pid = pid, ![t].l = l, ![t].pc = AfterPin(t)]
                 /\ UNCHANGED <<pool, heap, allPools, allPoolsMu>>
            ELSE /\ allPools' = Register(allPools, p, l)
                 /\ pool' = [pool EXCEPT ![p].localSize = gomaxprocs]
                 /\ g' = [g EXCEPT ![t].pid = pid, ![t].l = a,
                                   ![t].size = gomaxprocs, ![t].pc = "pinSlow_size"]
                 /\ heap' = Collect([heap EXCEPT ![a] = makeLocal(gomaxprocs)],
                                    pool', g')
                 /\ allPoolsMu' = t
    /\ UNCHANGED <<oldPools, gomaxprocs, held, home, hist, seq>>
    /\ Aged
    /\ UNCHANGED containers

\* pinSlow, lines 173-188: take the mutex, pin again and retry; else register
\* the pool, allocate a table of GOMAXPROCS shards and publish its pointer.
pinSlow_lock(t) ==
    /\ g[t].pc = "pinSlow_lock"
    /\ allPoolsMu = 0
    /\ \E pid \in FreePs :
         LET p == g[t].p
             s == pool[p].localSize
             l == pool[p].local
             a == NewAddr(heap)
         IN IF pinFast(pid, s)
            THEN /\ g' = [g EXCEPT ![t].pid = pid, ![t].l = l, ![t].pc = AfterPin(t)]
                 /\ UNCHANGED <<pool, heap, allPools, allPoolsMu>>
            ELSE /\ allPools' = Register(allPools, p, l)
                 /\ pool' = [pool EXCEPT ![p].local = a]
                 /\ g' = [g EXCEPT ![t].pid = pid, ![t].l = a,
                                   ![t].size = gomaxprocs, ![t].pc = "pinSlow_size"]
                 /\ heap' = Collect([heap EXCEPT ![a] = makeLocal(gomaxprocs)],
                                    pool', g')
                 /\ allPoolsMu' = t
    /\ UNCHANGED <<oldPools, gomaxprocs, held, home, hist, seq>>
    /\ Aged
    /\ UNCHANGED containers

\* pinSlow without the deferred Unlock of line 173.
pinSlow_size_nounlock(t) ==
    /\ g[t].pc = "pinSlow_size"
    /\ pool' = [pool EXCEPT ![g[t].p].localSize = g[t].size]
    /\ allPoolsMu' = allPoolsMu
    /\ g' = [g EXCEPT ![t].size = 0, ![t].pc = AfterPin(t)]
    /\ UNCHANGED <<heap, allPools, oldPools, gomaxprocs, held, home,
                   hist, seq>>
    /\ Aged
    /\ UNCHANGED containers

\* pinSlow, lines 189-190: publish the size, unlock (deferred) and return.
pinSlow_size(t) ==
    /\ g[t].pc = "pinSlow_size"
    /\ pool' = [pool EXCEPT ![g[t].p].localSize = g[t].size]
    /\ allPoolsMu' = 0
    /\ g' = [g EXCEPT ![t].size = 0, ![t].pc = AfterPin(t)]
    /\ UNCHANGED <<heap, allPools, oldPools, gomaxprocs, held, home,
                   hist, seq>>
    /\ Aged
    /\ UNCHANGED containers

\* ------------------------------------------------------------------ Put
\* Put without its nil check.
PutIsNoop_never(x) == FALSE

\* Put, line 59: the nil check.
PutIsNoop(x) == x = Nil

\* p.Put(x), lines 58-70: nil is ignored, else the goroutine pins.  The
\* build is the ordinary one (race.Enabled is the constant false), so the
\* blocks under race.Enabled are not compiled in.  A client hands over only
\* what it holds: an object that is not in the pool already.
Put(t, p, x) ==
    /\ g[t].pc = "idle"
    /\ x # Nil => held[x] > 0
    /\ UNCHANGED <<pool, heap, allPools, oldPools, allPoolsMu, gomaxprocs>>
    /\ IF PutIsNoop(x)
       THEN /\ UNCHANGED <<g, held, home>>
            /\ Log(t, Event("PutNil", p, NoPid, Nil, "none"))
       ELSE /\ held' = IF x \in Items THEN [held EXCEPT ![x] = @ - 1] ELSE held
            /\ home' = IF x \in Items THEN [home EXCEPT ![x] = p] ELSE home
            /\ \E pid \in FreePs : g' = [g EXCEPT ![t] = PinFrame("Put", p, x, pid)]
            /\ UNCHANGED <<hist, seq>>
    /\ Aged
    /\ UNCHANGED containers

\* Put that overwrites the private slot whatever it holds.
PutShard_over(sh, x) == [sh EXCEPT !.private = x]

\* Put without the x = nil of line 74: x goes to the private slot and to the
\* chain as well.
PutShard_both(sh, x) ==
    IF sh.private = Nil
    THEN [sh EXCEPT !.private = x, !.shared = pushHead(sh.shared, x)]
    ELSE IF x # Nil THEN [sh EXCEPT !.shared = pushHead(sh.shared, x)]
    ELSE sh

\* Where Put leaves x in the shard: the private slot if it is empty, else the
\* head of the chain (lines 71-77).
PutShard(sh, x) ==
    IF sh.private = Nil THEN [sh EXCEPT !.private = x]
    ELSE IF x # Nil THEN [sh EXCEPT !.shared = pushHead(sh.shared, x)]
    ELSE sh

\* Put, lines 71-82: store x in the shard, unpin and return.
Put_store(t) ==
    /\ g[t].pc = "Put_store"
    /\ UNCHANGED <<pool, allPools, oldPools, allPoolsMu, gomaxprocs, held, home>>
    /\ IF ~InBounds(g[t].l, g[t].pid)
       THEN /\ g' = [g EXCEPT ![t].pc = "fault"]
            /\ UNCHANGED <<heap, hist, seq>>
       ELSE LET sh == indexLocal(g[t].l, g[t].pid) IN
            /\ g' = [g EXCEPT ![t] = Idle]
            /\ heap' = Collect(Store(heap, g[t].l, g[t].pid, PutShard(sh, g[t].x)),
                               pool, g')
            /\ Log(t, Event("Put", g[t].p, g[t].pid, g[t].x,
                            IF sh.private = Nil THEN "private" ELSE "shared"))
    /\ Aged
    /\ UNCHANGED containers

\* ------------------------------------------------------------------ Get
\* p.Get(), lines 86-90: the goroutine pins.
Get(t, p) ==
    /\ g[t].pc = "idle"
    /\ \E pid \in FreePs : g' = [g EXCEPT ![t] = PinFrame("Get", p, Nil, pid)]
    /\ UNCHANGED <<pool, heap, allPools, oldPools, allPoolsMu, gomaxprocs, held, home, hist, seq>>
    /\ Aged
    /\ UNCHANGED containers

\* Get that calls New without testing it for nil.
CallsNew_always(x, hasNew) == x = Nil

\* Get that never calls New.
CallsNew_never(x, hasNew) == FALSE

\* Get, line 109: the factory is called when nothing was found and it is set.
CallsNew(x, hasNew) == x = Nil /\ hasNew

\* Get with runtime_procUnpin (line 102) moved after the call of New: the
\* goroutine is still pinned while the factory runs.
Finish_pinned(t, h, x, src) ==
    /\ g' = IF CallsNew(x, pool[g[t].p].New)
            THEN [g EXCEPT ![t] = [Idle EXCEPT !.pc = "Get_New", !.op = "Get",
                                               !.p = g[t].p, !.at = g[t].pid,
                                               !.pid = g[t].pid]]
            ELSE [g EXCEPT ![t] = Idle]
    /\ heap' = Collect(h, pool', g')
    /\ IF CallsNew(x, pool[g[t].p].New)
       THEN UNCHANGED <<held, home, hist, seq>>
       ELSE /\ held' = IF x \in Items THEN [held EXCEPT ![x] = @ + 1] ELSE held
            /\ home' = IF x \in Items THEN [home EXCEPT ![x] = 0] ELSE home
            /\ Log(t, Event("Get", g[t].p, g[t].pid, x, src))

\* Get, lines 102-112, with the pool interaction over and x in hand: unpin,
\* then return x or go on to call the factory.  h is the heap Get leaves.
Finish(t, h, x, src) ==
    /\ g' = IF CallsNew(x, pool[g[t].p].New)
            THEN [g EXCEPT ![t] = [Idle EXCEPT !.pc = "Get_New", !.op = "Get",
                                               !.p = g[t].p, !.at = g[t].pid]]
            ELSE [g EXCEPT ![t] = Idle]
    /\ heap' = Collect(h, pool', g')
    /\ IF CallsNew(x, pool[g[t].p].New)
       THEN UNCHANGED <<held, home, hist, seq>>
       ELSE /\ held' = IF x \in Items THEN [held EXCEPT ![x] = @ + 1] ELSE held
            /\ home' = IF x \in Items THEN [home EXCEPT ![x] = 0] ELSE home
            /\ Log(t, Event("Get", g[t].p, g[t].pid, x, src))

\* Get, lines 110-112: x = p.New(); return x.
Get_New(t) ==
    /\ g[t].pc = "Get_New"
    /\ g' = [g EXCEPT ![t] = Idle]
    /\ Log(t, Event("Get", g[t].p, g[t].at, NewVal, "New"))
    /\ UNCHANGED <<pool, heap, allPools, oldPools, allPoolsMu, gomaxprocs, held, home>>
    /\ Aged
    /\ UNCHANGED containers

\* The read of the private slot without line 92, which clears it.
TakePrivate_keep(sh) == [x |-> sh.private, sh |-> sh]

\* Get, lines 91-92: x := l.private; l.private = nil.
TakePrivate(sh) == [x |-> sh.private, sh |-> [sh EXCEPT !.private = Nil]]

\* Get that goes to the chain without looking at the private slot.
GetLocal_chain(sh) ==
    LET b == popHead(sh.shared)
    IN [x |-> b.x, sh |-> [sh EXCEPT !.shared = b.c], src |-> "head"]

\* Get, lines 91-98: the private slot, then the head of the own chain.
GetLocal(sh) ==
    LET a == TakePrivate(sh)
        b == popHead(a.sh.shared)
    IN IF a.x # Nil THEN [x |-> a.x, sh |-> a.sh, src |-> "private"]
       ELSE [x |-> b.x, sh |-> [a.sh EXCEPT !.shared = b.c], src |-> "head"]

\* Get, lines 91-101, and getSlow, line 117: the own shard; on a miss the
\* load of localSize.
Get_local(t) ==
    /\ g[t].pc = "Get_local"
    /\ UNCHANGED <<pool, allPools, oldPools, allPoolsMu, gomaxprocs>>
    /\ IF ~InBounds(g[t].l, g[t].pid)
       THEN /\ g' = [g EXCEPT ![t].pc = "fault"]
            /\ UNCHANGED <<heap, held, home, hist, seq>>
       ELSE LET r == GetLocal(indexLocal(g[t].l, g[t].pid))
                h == Store(heap, g[t].l, g[t].pid, r.sh)
            IN IF r.x # Nil
               THEN Finish(t, h, r.x, r.src)
               ELSE /\ g' = [g EXCEPT ![t].l = Nil, ![t].pc = "getSlow_l",
                                      ![t].size = pool[g[t].p].localSize]
                    /\ heap' = Collect(h, pool, g')
                    /\ UNCHANGED <<held, home, hist, seq>>
    /\ Aged
    /\ UNCHANGED containers

\* getSlow without its steal loop: from the load of local to the victim cache.
getSlow_l_nosteal(t) ==
    /\ g[t].pc = "getSlow_l"
    /\ g' = [g EXCEPT ![t].locals = Nil, ![t].size = 0, ![t].pc = "victim"]
    /\ UNCHANGED <<pool, heap, allPools, oldPools, allPoolsMu, gomaxprocs, held, home, hist, seq>>
    /\ Aged
    /\ UNCHANGED containers

\* getSlow, lines 118-120: the load of local; the loop is skipped for size 0.
getSlow_l(t) ==
    /\ g[t].pc = "getSlow_l"
    /\ g' = [g EXCEPT ![t].locals = pool[g[t].p].local,
                      ![t].pc = IF g[t].size > 0 THEN "steal" ELSE "victim"]
    /\ UNCHANGED <<pool, heap, allPools, oldPools, allPoolsMu, gomaxprocs, held, home, hist, seq>>
    /\ Aged
    /\ UNCHANGED containers

\* The steal loop without the round in its index: the own shard every time.
StealIndex_own(pid, i, size) == pid % size

\* The steal loop starting at shard 0 whatever the pid.
StealIndex_fromzero(pid, i, size) == i % size

\* The shard the steal loop visits in round i (line 121).
StealIndex(pid, i, size) == (pid + i + 1) % size

\* The shard the victim loop visits in round i (line 141).
VictimIndex(pid, i, size) == (pid + i) % size

\* One round of a popTail loop over the table g[t].locals (lines 120-125 and
\* 140-145): the item is returned, or the loop goes on, or it ends at `done`.
TailRound(t, idx, src, done) ==
    IF ~InBounds(g[t].locals, idx)
    THEN /\ g' = [g EXCEPT ![t].pc = "fault"]
         /\ UNCHANGED <<heap, held, home, hist, seq>>
    ELSE LET sh == indexLocal(g[t].locals, idx)
             r  == popTail(sh.shared)
             h  == Store(heap, g[t].locals, idx, [sh EXCEPT !.shared = r.c])
         IN IF r.x # Nil
            THEN Finish(t, h, r.x, src)
            ELSE /\ g' = IF g[t].i + 1 < g[t].size
                         THEN [g EXCEPT ![t].i = @ + 1]
                         ELSE [g EXCEPT ![t].i = 0, ![t].size = 0,
                                        ![t].locals = Nil, ![t].pc = done]
                 /\ heap' = Collect(h, pool, g')
                 /\ UNCHANGED <<held, home, hist, seq>>

\* getSlow, lines 120-125: steal from the tail of the chains of the table.
steal(t) ==
    /\ g[t].pc = "steal"
    /\ UNCHANGED <<pool, allPools, oldPools, allPoolsMu, gomaxprocs>>
    /\ TailRound(t, StealIndex(g[t].pid, g[t].i, g[t].size), "steal", "victim")
    /\ Aged
    /\ UNCHANGED containers

\* getSlow without the test of line 131.
VictimSkipped_never(pid, size) == FALSE

\* getSlow, line 131: the victim cache is skipped by a pid it has no shard for.
VictimSkipped(pid, size) == pid >= size

\* getSlow, lines 130-139: the load of victimSize, then the private slot of
\* the victim shard of this P.
victim(t) ==
    /\ g[t].pc = "victim"
    /\ UNCHANGED <<pool, allPools, oldPools, allPoolsMu, gomaxprocs>>
    /\ LET size   == pool[g[t].p].victimSize
           locals == pool[g[t].p].victim
       IN IF VictimSkipped(g[t].pid, size)
          THEN Finish(t, heap, Nil, "none")
          ELSE IF ~InBounds(locals, g[t].pid)
          THEN /\ g' = [g EXCEPT ![t].pc = "fault"]
               /\ UNCHANGED <<heap, held, home, hist, seq>>
          ELSE LET r == TakePrivate(indexLocal(locals, g[t].pid)) IN
               IF r.x # Nil
               THEN Finish(t, Store(heap, locals, g[t].pid, r.sh), r.x, "victim")
               ELSE /\ g' = [g EXCEPT ![t].size = size, ![t].locals = locals,
                                      ![t].i = 0, ![t].pc = "victim_steal"]
                    /\ UNCHANGED <<heap, held, home, hist, seq>>
    /\ Aged
    /\ UNCHANGED containers

\* getSlow, lines 140-145: the tails of the chains of the victim cache.
victim_steal(t) ==
    /\ g[t].pc = "victim_steal"
    /\ UNCHANGED <<pool, allPools, oldPools, allPoolsMu, gomaxprocs>>
    /\ TailRound(t, VictimIndex(g[t].pid, g[t].i, g[t].size), "victim", "victim_mark")
    /\ Aged
    /\ UNCHANGED containers

\* The marking that lets go of the victim table as well.
victim_mark_drop(t) ==
    /\ g[t].pc = "victim_mark"
    /\ pool' = [pool EXCEPT ![g[t].p].victimSize = 0, ![g[t].p].victim = Nil]
    /\ UNCHANGED <<allPools, oldPools, allPoolsMu, gomaxprocs>>
    /\ Finish(t, heap, Nil, "none")
    /\ Aged
    /\ UNCHANGED containers

\* getSlow, lines 149-151: mark the victim cache empty and return nil.
victim_mark(t) ==
    /\ g[t].pc = "victim_mark"
    /\ pool' = [pool EXCEPT ![g[t].p].victimSize = 0]
    /\ UNCHANGED <<allPools, oldPools, allPoolsMu, gomaxprocs>>
    /\ Finish(t, heap, Nil, "none")
    /\ Aged
    /\ UNCHANGED containers

\* ----------------------------------------------------------- poolCleanup
\* poolCleanup without its first loop: no victim cache is dropped.
DropVictims_none(pl, ps) == pl

\* The first loop without line 202: the victim pointer stays.
RECURSIVE DropVictims_sizeonly(_, _)
DropVictims_sizeonly(pl, ps) ==
    IF ps = <<>> THEN pl
    ELSE DropVictims_sizeonly([pl EXCEPT ![Head(ps)].victimSize = 0], Tail(ps))

\* poolCleanup, lines 201-204: drop the victim caches of the pools in ps.
RECURSIVE DropVictims(_, _)
DropVictims(pl, ps) ==
    IF ps = <<>> THEN pl
    ELSE DropVictims([pl EXCEPT ![Head(ps)].victim = Nil,
                                ![Head(ps)].victimSize = 0], Tail(ps))

\* The second loop without lines 210-211: the primary cache stays in place.
RECURSIVE MoveToVictim_keeplocal(_, _)
MoveToVictim_keeplocal(pl, ps) ==
    IF ps = <<>> THEN pl
    ELSE MoveToVictim_keeplocal([pl EXCEPT ![Head(ps)].victim = pl[Head(ps)].local,
                                           ![Head(ps)].victimSize = pl[Head(ps)].localSize],
                                Tail(ps))

\* The second loop without line 209: victimSize is not set.
RECURSIVE MoveToVictim_nosize(_, _)
MoveToVictim_nosize(pl, ps) ==
    IF ps = <<>> THEN pl
    ELSE MoveToVictim_nosize([pl EXCEPT ![Head(ps)].victim = pl[Head(ps)].local,
                                        ![Head(ps)].local = Nil,
                                        ![Head(ps)].localSize = 0], Tail(ps))

\* poolCleanup, lines 207-212: move the primary caches of the pools in ps to
\* their victim caches.
RECURSIVE MoveToVictim(_, _)
MoveToVictim(pl, ps) ==
    IF ps = <<>> THEN pl
    ELSE MoveToVictim([pl EXCEPT ![Head(ps)].victim = pl[Head(ps)].local,
                                 ![Head(ps)].victimSize = pl[Head(ps)].localSize,
                                 ![Head(ps)].local = Nil,
                                 ![Head(ps)].localSize = 0], Tail(ps))

\* One more rotation in the age of every item (2 stands for "2 or more").
Older(a) == [x \in Items |-> IF a[x] < 2 THEN a[x] + 1 ELSE a[x]]

\* poolCleanup runs with the world stopped, at the start of a collection:
\* no goroutine is pinned.
poolCleanup ==
    /\ NobodyPinned
    /\ pool' = MoveToVictim(DropVictims(pool, oldPools), allPools)
    /\ oldPools' = allPools
    /\ allPools' = <<>>
    /\ heap' = Collect(heap, pool', g)
    /\ age' = Ages(Older(age), heap')
    /\ Log(0, Event("poolCleanup", 0, NoPid, Nil, "none"))
    /\ UNCHANGED <<allPoolsMu, gomaxprocs, g, held, home>>
    /\ UNCHANGED containers

\* ------------------------------------------------------------ GOMAXPROCS
\* runtime.GOMAXPROCS(n), debug.go lines 9-28: a query, or a change of the
\* number of Ps with the world stopped.
GOMAXPROCS(n) ==
    IF n <= 0 \/ n = gomaxprocs
    THEN UNCHANGED vars
    ELSE /\ NobodyPinned
         /\ gomaxprocs' = n
         /\ Log(0, Event("GOMAXPROCS", 0, n, gomaxprocs, "none"))
         /\ UNCHANGED <<pool, heap, allPools, oldPools, allPoolsMu,
                        g, held, home, age>>
         /\ UNCHANGED containers

\* ------------------------------------------------------------ the program
\* A step of goroutine t, which uses the pools ps.
Step(t, ps) ==
    \/ \E p \in ps : \E x \in Items \cup {Nil} : Put(t, p, x)
    \/ Put_store(t)
    \/ \E p \in ps : Get(t, p)
    \/ pin_l(t)
    \/ pinSlow_lock(t)
    \/ pinSlow_size(t)
    \/ Get_local(t)
    \/ getSlow_l(t)
    \/ steal(t)
    \/ victim(t)
    \/ victim_steal(t)
    \/ victim_mark(t)
    \/ Get_New(t)

\* The program: goroutines that share the declared pools, the collector and
\* changes of GOMAXPROCS.
Next ==
    \/ \E t \in Goroutines : Step(t, Pools)
    \/ poolCleanup
    \/ \E n \in 0..MaxProcs : GOMAXPROCS(n)

Spec == Init /\ [][Next]_vars

\* The steps of a call of t that is under way and does not wait for the mutex.
Run(t) ==
    \/ Put_store(t)
    \/ pin_l(t)
    \/ pinSlow_size(t)
    \/ Get_local(t)
    \/ getSlow_l(t)
    \/ steal(t)
    \/ victim(t)
    \/ victim_steal(t)
    \/ victim_mark(t)
    \/ Get_New(t)

\* The scheduler runs every goroutine that can run, and sync.Mutex hands the
\* mutex to a goroutine that keeps waiting for it (Lock, line 173).  Nothing
\* obliges a client to call Put or Get, the collector to run or GOMAXPROCS
\* to change.
Fairness ==
    \A t \in Goroutines : WF_vars(Run(t)) /\ SF_vars(pinSlow_lock(t))

\* The start of the runs followed for termination: as Init, with the clients
\* holding one object and no history kept, which leaves the calls, their
\* interleavings, the rotations and the changes of GOMAXPROCS as they are.
InitFair ==
    /\ \E f \in [Pools -> BOOLEAN] :
         pool = [p \in PoolIds |-> ZeroPool(p \in Pools /\ f[p])]
    /\ heap = [a \in TableIds |-> <<>>]
    /\ allPools = <<>>
    /\ oldPools = <<>>
    /\ allPoolsMu = 0
    /\ gomaxprocs \in 1..MaxProcs
    /\ g = [t \in Goroutines |-> Idle]
    /\ held = [x \in Items |-> IF x = 1 THEN 1 ELSE 0]
    /\ home = [x \in Items |-> 0]
    /\ age = [x \in Items |-> 0]
    /\ hist = <<>>
    /\ seq = FALSE
    /\ hp = <<>>
    /\ hres = [op |-> "none", i |-> 0, x |-> 0, before |-> <<>>]
    /\ el = <<>> /\ llen = <<>>
    /\ lres = [op |-> "none", l |-> 0, e |-> 0, mark |-> 0]

SpecFair == InitFair /\ [][Next]_vars /\ Fairness

\* ------------------------------------------------- a Pool copied by value
\* q = *p, lines 20-30: every field of p is copied, the table pointers with
\* the rest (noCopy is an empty marker for vet; no code reads it).  q is a
\* fresh variable and p has been used.
CopyPool(t, p) ==
    /\ g[t].pc = "idle"
    /\ pool[p].local # Nil \/ pool[p].victim # Nil
    /\ pool[Dup] = ZeroPool(FALSE)
    /\ \A k \in 1..Len(allPools) : allPools[k] # Dup
    /\ \A k \in 1..Len(oldPools) : oldPools[k] # Dup
    /\ pool' = [pool EXCEPT ![Dup] = pool[p]]
    /\ Log(t, Event("Copy", p, NoPid, Nil, "none"))
    /\ UNCHANGED <<heap, allPools, oldPools, allPoolsMu, gomaxprocs, g, held, home, age>>
    /\ UNCHANGED containers

\* The pools in use: the declared ones, and q once it holds a copy.
Usable == Pools \cup {q \in {Dup} : pool[q] # ZeroPool(FALSE)}

\* The program of one goroutine that copies a pool into q and uses both,
\* followed for as long as its history is recorded.
CopyRun     == seq /\ Step(1, Usable)
CopyAssign  == seq /\ \E p \in Pools : CopyPool(1, p)
CopyCleanup == seq /\ poolCleanup
CopyProcs   == seq /\ \E n \in 0..MaxProcs : GOMAXPROCS(n)

NextCopy == CopyRun \/ CopyAssign \/ CopyCleanup \/ CopyProcs

SpecCopy == Init /\ [][NextCopy]_vars

\* ======================================================== container/heap
\* The heap package works on a heap.Interface; here the interface is
\* implemented by a slice of ints ordered by <, indexed from 0 as in Go.
MaxHeapLen == 6           \* longest slice
MaxKey     == 2           \* largest element
Keys       == 0..MaxKey

\* The variables of the pools, which the containers never touch.
poolVars == <<pool, heap, allPools, oldPools, allPoolsMu, gomaxprocs, g, held,
              home, age, hist, seq>>

\* The pools before their first use.
PoolsAtRest ==
    /\ pool = [p \in PoolIds |-> ZeroPool(FALSE)]
    /\ heap = [a \in TableIds |-> <<>>]
    /\ allPools = <<>> /\ oldPools = <<>> /\ allPoolsMu = 0
    /\ gomaxprocs = 1
    /\ g = [t \in Goroutines |-> Idle]
    /\ held = [x \in Items |-> 1] /\ home = [x \in Items |-> 0]
    /\ age = [x \in Items |-> 0]
    /\ hist = <<>> /\ seq = TRUE

\* Go's integer division, which truncates toward zero.
Quo(a, b) == IF a >= 0 THEN a \div b ELSE 0 - ((0 - a) \div b)

\* sort.Interface on the slice s (heap.go lines 13-17).
Less(s, i, j) == s[i + 1] < s[j + 1]
Swap(s, i, j) == [s EXCEPT ![i + 1] = s[j + 1], ![j + 1] = s[i + 1]]

\* h.Push(x): add x as element Len().
ifacePush(s, x) == Append(s, x)

\* h.Pop(): remove and return element Len() - 1.
ifacePop(s) == [s |-> SubSeq(s, 1, Len(s) - 1), x |-> s[Len(s)]]

\* up, lines 62-71.
RECURSIVE up(_, _)
up(s, j) ==
    LET i == Quo(j - 1, 2) IN
    IF i = j \/ ~Less(s, j, i) THEN s
    ELSE up(Swap(s, i, j), i)

\* The loop of down with the right child never looked at.
RECURSIVE downFrom_left(_, _, _)
downFrom_left(s, i, n) ==
    LET j1 == 2 * i + 1 IN
    IF j1 >= n \/ j1 < 0 THEN [s |-> s, i |-> i]
    ELSE IF ~Less(s, j1, i) THEN [s |-> s, i |-> i]
         ELSE downFrom_left(Swap(s, i, j1), j1, n)

\* The loop of down, lines 75-89, from position i: the slice and the
\* position it ends at.
RECURSIVE downFrom(_, _, _)
downFrom(s, i, n) ==
    LET j1 == 2 * i + 1 IN
    IF j1 >= n \/ j1 < 0 THEN [s |-> s, i |-> i]
    ELSE LET j2 == j1 + 1
             j  == IF j2 < n /\ Less(s, j2, j1) THEN j2 ELSE j1
         IN IF ~Less(s, j, i) THEN [s |-> s, i |-> i]
            ELSE downFrom(Swap(s, i, j), j, n)

\* down, lines 73-91: the slice, and whether the element moved.
down(s, i0, n) ==
    LET r == downFrom(s, i0, n) IN [s |-> r.s, moved |-> r.i > i0]

\* The loop of Init, lines 23-25.
RECURSIVE initLoop(_, _, _)
initLoop(s, i, n) == IF i >= 0 THEN initLoop(down(s, i, n).s, i - 1, n) ELSE s

\* heap.Init, lines 20-26.
heapInit(s) == initLoop(s, Quo(Len(s), 2) - 1, Len(s))

\* heap.Push, lines 30-33.
heapPush(s, x) == LET t == ifacePush(s, x) IN up(t, Len(t) - 1)

\* heap.Pop, lines 36-41: the slice left and the element returned.
heapPop(s) ==
    LET n == Len(s) - 1 IN ifacePop(down(Swap(s, 0, n), 0, n).s)

\* The repair of Remove and Fix: down, and up if the element did not move.
Settle(s, i, n) ==
    LET d == down(s, i, n) IN IF ~d.moved THEN up(d.s, i) ELSE d.s

\* heap.Remove, lines 44-53.
heapRemove(s, i) ==
    LET n == Len(s) - 1
    IN ifacePop(IF n # i THEN Settle(Swap(s, i, n), i, n) ELSE s)

\* heap.Fix, lines 56-60.
heapFix(s, i) == Settle(s, i, Len(s))

\* The invariant of the package (line 10): no child is less than its parent.
HeapOrdered(s) ==
    \A i \in 0..(Len(s) - 1) : \A j \in (2 * i + 1)..(2 * i + 2) :
        j < Len(s) => ~Less(s, j, i)

\* The record of a call: operation, index, value passed or returned, and the
\* slice the call received.
Call(op, i, x, before) == [op |-> op, i |-> i, x |-> x, before |-> before]

\* A slice of any contents.
InitHeap ==
    /\ PoolsAtRest
    /\ hp \in UNION {[1..n -> Keys] : n \in 0..MaxHeapLen}
    /\ hres = Call("none", 0, 0, <<>>)
    /\ el = <<>> /\ llen = <<>>
    /\ lres = [op |-> "none", l |-> 0, e |-> 0, mark |-> 0]

\* heap.Init(h), on any contents.
HInit ==
    /\ hp' = heapInit(hp)
    /\ hres' = Call("Init", 0, 0, hp)
    /\ UNCHANGED <<poolVars, el, llen, lres>>

\* heap.Push(h, x), on a heap.
HPush(x) ==
    /\ HeapOrdered(hp) /\ Len(hp) < MaxHeapLen
    /\ hp' = heapPush(hp, x)
    /\ hres' = Call("Push", 0, x, hp)
    /\ UNCHANGED <<poolVars, el, llen, lres>>

\* heap.Pop(h), on a heap that is not empty (Swap(0, -1) is out of range).
HPop ==
    /\ HeapOrdered(hp) /\ hp # <<>>
    /\ hp' = heapPop(hp).s
    /\ hres' = Call("Pop", 0, heapPop(hp).x, hp)
    /\ UNCHANGED <<poolVars, el, llen, lres>>

\* heap.Remove(h, i), on a heap, for 0 <= i < Len.
HRemove(i) ==
    /\ HeapOrdered(hp) /\ i < Len(hp)
    /\ hp' = heapRemove(hp, i).s
    /\ hres' = Call("Remove", i, heapRemove(hp, i).x, hp)
    /\ UNCHANGED <<poolVars, el, llen, lres>>

\* The element at i of a heap is set to x, then heap.Fix(h, i).
HFix(i, x) ==
    /\ HeapOrdered(hp) /\ i < Len(hp)
    /\ hp' = heapFix([hp EXCEPT ![i + 1] = x], i)
    /\ hres' = Call("Fix", i, x, [hp EXCEPT ![i + 1] = x])
    /\ UNCHANGED <<poolVars, el, llen, lres>>

NextHeap ==
    \/ HInit
    \/ \E x \in Keys : HPush(x)
    \/ HPop
    \/ \E i \in 0..(MaxHeapLen - 1) : HRemove(i)
    \/ \E i \in 0..(MaxHeapLen - 1) : \E x \in Keys : HFix(i, x)

SpecHeap == InitHeap /\ [][NextHeap]_vars

\* ======================================================== container/list
MaxElems == 3             \* Elements the program allocates
NLists   == 2             \* Lists the program declares
Elems    == 1..MaxElems
Lists    == 1..NLists

\* &l.root, the sentinel of list l; Nil is the nil pointer.
Root(l) == 0 - l
Nodes   == Elems \cup {Root(l) : l \in Lists}

\* The zero Element, and the state of a program with zero Lists.
ZeroElement == [next |-> Nil, prev |-> Nil, list |-> Nil]

\* The memory of the package: the Elements and the len of the Lists.
Mem(e, n) == [el |-> e, len |-> n]

\* List.Init, lines 69-74.
listInit(m, l) ==
    Mem([m.el EXCEPT ![Root(l)].next = Root(l), ![Root(l)].prev = Root(l)],
        [m.len EXCEPT ![l] = 0])

\* List.lazyInit, lines 99-103.
lazyInit(m, l) == IF m.el[Root(l)].next = Nil THEN listInit(m, l) ELSE m

\* List.Front, lines 83-88, and Element.Next, lines 47-52.
Front(m, l) == IF m.len[l] = 0 THEN Nil ELSE m.el[Root(l)].next

listNext(m, e) ==
    IF m.el[e].list # Nil /\ m.el[e].next # Root(m.el[e].list)
    THEN m.el[e].next ELSE Nil

\* The assignments of insert with e.next.prev = e (line 110) left out.
insert_half(m, l, e, at) ==
    LET a == [m.el EXCEPT ![e].prev = at]
        b == [a EXCEPT ![e].next = a[at].next]
        c == [b EXCEPT ![b[e].prev].next = e]
        f == [c EXCEPT ![e].list = l]
    IN Mem(f, [m.len EXCEPT ![l] = @ + 1])

\* List.insert, lines 106-114: the assignments in their order.
insert(m, l, e, at) ==
    LET a == [m.el EXCEPT ![e].prev = at]
        b == [a EXCEPT ![e].next = a[at].next]
        c == [b EXCEPT ![b[e].prev].next = e]
        d == [c EXCEPT ![c[e].next].prev = e]
        f == [d EXCEPT ![e].list = l]
    IN Mem(f, [m.len EXCEPT ![l] = @ + 1])

\* &Element{Value: v}: an Element nothing refers to.
NewElement(m) ==
    CHOOSE e \in Elems : m.el[e] = ZeroElement /\
        \A d \in Elems : m.el[d] = ZeroElement => e <= d

\* List.insertValue, lines 117-119.
insertValue(m, l, at) == insert(m, l, NewElement(m), at)

\* List.remove, lines 122-130.
remove(m, l, e) ==
    LET a == [m.el EXCEPT ![m.el[e].prev].next = m.el[e].next]
        b == [a EXCEPT ![a[e].next].prev = a[e].prev]
        c == [b EXCEPT ![e].next = Nil, ![e].prev = Nil, ![e].list = Nil]
    IN Mem(c, [m.len EXCEPT ![l] = @ - 1])

\* List.move, lines 133-146.
move(m, e, at) ==
    IF e = at THEN m
    ELSE LET a == [m.el EXCEPT ![m.el[e].prev].next = m.el[e].next]
             b == [a EXCEPT ![a[e].next].prev = a[e].prev]
             c == [b EXCEPT ![e].prev = at]
             d == [c EXCEPT ![e].next = c[at].next]
             f == [d EXCEPT ![d[e].prev].next = e]
             k == [f EXCEPT ![f[e].next].prev = e]
         IN Mem(k, m.len)

\* e is not an element of l (lines 150, 171, 179, 187, 197, 206, 214).
NotOf(m, l, e) == m.el[e].list # l

\* The methods, as functions of the memory.
listRemove(m, l, e) == IF ~NotOf(m, l, e) THEN remove(m, l, e) ELSE m
listPushFront(m, l) == insertValue(lazyInit(m, l), l, Root(l))
listPushBack(m, l) ==
    LET n == lazyInit(m, l) IN insertValue(n, l, n.el[Root(l)].prev)
listInsertBefore(m, l, mark) ==
    IF NotOf(m, l, mark) THEN m ELSE insertValue(m, l, m.el[mark].prev)
listInsertAfter(m, l, mark) ==
    IF NotOf(m, l, mark) THEN m ELSE insertValue(m, l, mark)
listMoveToFront(m, l, e) ==
    IF NotOf(m, l, e) \/ m.el[Root(l)].next = e THEN m ELSE move(m, e, Root(l))
listMoveToBack(m, l, e) ==
    IF NotOf(m, l, e) \/ m.el[Root(l)].prev = e THEN m
    ELSE move(m, e, m.el[Root(l)].prev)
listMoveBefore(m, l, e, mark) ==
    IF NotOf(m, l, e) \/ e = mark \/ NotOf(m, l, mark) THEN m
    ELSE move(m, e, m.el[mark].prev)
listMoveAfter(m, l, e, mark) ==
    IF NotOf(m, l, e) \/ e = mark \/ NotOf(m, l, mark) THEN m
    ELSE move(m, e, mark)

\* Zero Lists and no Element in use.
InitList ==
    /\ PoolsAtRest
    /\ hp = <<>> /\ hres = Call("none", 0, 0, <<>>)
    /\ el = [n \in Nodes |-> ZeroElement]
    /\ llen = [l \in Lists |-> 0]
    /\ lres = [op |-> "none", l |-> 0, e |-> 0, mark |-> 0]

\* An Element can be allocated.
CanAllocate == \E e \in Elems : el[e] = ZeroElement

\* A call leaves the memory m and is recorded.
Called(op, l, e, mark, m) ==
    /\ el' = m.el
    /\ llen' = m.len
    /\ lres' = [op |-> op, l |-> l, e |-> e, mark |-> mark]
    /\ UNCHANGED <<poolVars, hp, hres>>

PushFront(l) ==
    CanAllocate /\ Called("PushFront", l, Nil, Nil, listPushFront(Mem(el, llen), l))

PushBack(l) ==
    CanAllocate /\ Called("PushBack", l, Nil, Nil, listPushBack(Mem(el, llen), l))

InsertBefore(l, mark) ==
    CanAllocate /\ Called("InsertBefore", l, Nil, mark,
                          listInsertBefore(Mem(el, llen), l, mark))

InsertAfter(l, mark) ==
    CanAllocate /\ Called("InsertAfter", l, Nil, mark,
                          listInsertAfter(Mem(el, llen), l, mark))

\* The element and the mark of a call are Elements, never nil.
Remove(l, e) ==
    e # Nil /\ Called("Remove", l, e, Nil, listRemove(Mem(el, llen), l, e))

MoveToFront(l, e) ==
    e # Nil /\ Called("MoveToFront", l, e, Nil, listMoveToFront(Mem(el, llen), l, e))

MoveToBack(l, e) ==
    e # Nil /\ Called("MoveToBack", l, e, Nil, listMoveToBack(Mem(el, llen), l, e))

MoveBefore(l, e, mark) ==
    /\ e # Nil /\ mark # Nil
    /\ Called("MoveBefore", l, e, mark, listMoveBefore(Mem(el, llen), l, e, mark))

MoveAfter(l, e, mark) ==
    /\ e # Nil /\ mark # Nil
    /\ Called("MoveAfter", l, e, mark, listMoveAfter(Mem(el, llen), l, e, mark))

NextList ==
    \/ \E l \in Lists : PushFront(l)
    \/ \E l \in Lists : PushBack(l)
    \/ \E l \in Lists : \E mark \in Elems : InsertBefore(l, mark)
    \/ \E l \in Lists : \E mark \in Elems : InsertAfter(l, mark)
    \/ \E l \in Lists : \E e \in Elems : Remove(l, e)
    \/ \E l \in Lists : \E e \in Elems : MoveToFront(l, e)
    \/ \E l \in Lists : \E e \in Elems : MoveToBack(l, e)
    \/ \E l \in Lists : \E e, mark \in Elems : MoveBefore(l, e, mark)
    \/ \E l \in Lists : \E e, mark \in Elems : MoveAfter(l, e, mark)

SpecList == InitList /\ [][NextList]_vars

\* ------------------------------------------------------------- properties
\* The places of the heap that hold x: <<table, shard, 0>> is a private slot,
\* <<table, shard, j>> is position j of the shard's chain.
Places(x) ==
    UNION {UNION {(IF heap[a][k].private = x THEN {<<a, k, 0>>} ELSE {}) \cup
                  {<<a, k, j>> : j \in {i \in 1..Len(heap[a][k].shared) :
                                          heap[a][k].shared[i] = x}}
                  : k \in 1..Len(heap[a])} : a \in TableIds}

\* The Puts under way that carry x.
InFlight(x) == {t \in Goroutines : g[t].op = "Put" /\ g[t].x = x}

\* The value a Get returns when nothing is found.
Miss(p) == IF pool[p].New THEN NewVal ELSE Nil

\* The history has n events and nothing has started since the last of them:
\* the state is the one the n operations left.
After(n) == Len(hist) = n /\ \A t \in Goroutines : g[t].pc = "idle"

\* No goroutine has indexed a table outside its allocation.
NoFault == \A t \in Goroutines : g[t].pc # "fault"

\* C1: no duplication.  Under every interleaving of Puts and Gets (steals,
\* victim reads, table growth and rotations included) an object is in at most
\* one place: in the hands of a client, in a Put under way, or in one slot of
\* one table.  A Get moves it from a slot to the client, so an object stored
\* by one Put is returned by at most one Get until it is Put again.
NoDuplication ==
    \A x \in Items :
        held[x] + Cardinality(Places(x)) + Cardinality(InFlight(x)) <= 1

\* Two Gets race for the one object of a chain: the owner of the shard is
\* about to pop its head, a thief is about to pop its tail.
Contended ==
    \E t, u \in Goroutines :
        /\ g[t].pc = "Get_local" /\ g[u].pc = "steal"
        /\ g[u].locals = g[t].l
        /\ StealIndex(g[u].pid, g[u].i, g[u].size) = g[t].pid
        /\ InBounds(g[t].l, g[t].pid)
        /\ indexLocal(g[t].l, g[t].pid).private = Nil
        /\ Len(indexLocal(g[t].l, g[t].pid).shared) = 1

\* The recorded history gives every object a Get returned an origin: a Put
\* of it on the same pool, with no Get of it in between.
HistOrigin ==
    \A j \in 1..Len(hist) :
        hist[j].op = "Get" =>
            /\ hist[j].x \in Items \cup {Nil, NewVal}
            /\ hist[j].x = NewVal => pool[hist[j].p].New /\ hist[j].src = "New"
            /\ hist[j].x \in Items =>
                 \E i \in 1..(j - 1) :
                     /\ hist[i].op = "Put" /\ hist[i].x = hist[j].x
                     /\ hist[i].p = hist[j].p
                     /\ \A k \in (i + 1)..(j - 1) :
                            ~(hist[k].op = "Get" /\ hist[k].x = hist[j].x)

\* C2: origin of the values of Get.  A Get hands a client an object only if
\* the object was last passed to Put on the same pool and has not been
\* returned since, taking it out of a table; the only other value that is
\* not nil is the result of New, called during that Get on a pool that has
\* a factory.
GetOrigin ==
    /\ [](HistOrigin /\ \A t \in Goroutines : g[t].pc = "Get_New" => pool[g[t].p].New)
    /\ [][\A x \in Items : held'[x] > held[x] =>
            \E t \in Goroutines :
                /\ g[t].op = "Get" /\ g'[t].pc = "idle"
                /\ home[x] = g[t].p /\ held[x] = 0
                /\ Places(x) # {} /\ Places(x)' = {}]_vars

\* A Put, the Get that returns its object, then a Get that returns New().
PutGetNew ==
    /\ After(3)
    /\ hist[1].op = "Put" /\ hist[2].op = "Get" /\ hist[3].op = "Get"
    /\ hist[2].x = hist[1].x /\ hist[3].x = NewVal

\* C3: Put(nil) is a no-op.  The call returns without pinning, allocates
\* and replaces no table, registers no pool, and leaves every private slot,
\* chain, victim cache and both registries as they were.
PutNilNoop ==
    [][\A t \in Goroutines : \A p \in Pools :
          Put(t, p, Nil) =>
              /\ UNCHANGED <<pool, heap, allPools, oldPools, allPoolsMu, gomaxprocs>>
              /\ UNCHANGED <<g, held, home, age>>
              /\ ~Pinned(t)']_vars

\* Put(nil) on a pool that has a table holding an object.
PutNilAfterPut ==
    \E j \in 2..Len(hist) :
        /\ hist[j].op = "PutNil" /\ hist[j - 1].op = "Put"
        /\ pool[hist[j].p].local # Nil
        /\ Stored(heap) # {}

\* C4: a Get that misses everywhere.  A Get on a pool nothing has been Put
\* to (a fresh pool first of all) returns New() if the pool has a factory and
\* nil if it has none; every Get that found nothing returns one of the two in
\* the same way, and no Get ends in a failure.
MissReturns ==
    /\ NoFault
    /\ \A j \in 1..Len(hist) :
         hist[j].op = "Get" =>
            /\ (\A i \in 1..(j - 1) : hist[i].op # "Put") => hist[j].x = Miss(hist[j].p)
            /\ hist[j].src \in {"New", "none"} => hist[j].x = Miss(hist[j].p)
            /\ hist[j].x \in {Nil, NewVal} => hist[j].x = Miss(hist[j].p)

\* The first operation on a fresh pool is a Get, and it returned New().
FreshGetNew ==
    /\ hist # <<>>
    /\ hist[1].op = "Get" /\ hist[1].x = NewVal /\ hist[1].src = "New"

\* What a Get finds in its own shard: the private slot's object if there is
\* one, else the object at the head of the chain, else nothing.
LocalChoice(sh) ==
    IF sh.private # Nil THEN sh.private
    ELSE IF sh.shared # <<>> THEN sh.shared[Len(sh.shared)] ELSE Nil

\* Events j and j + 1 of the history are a Put and a Get of one pool on one
\* shard, with nothing in between.
PutThenGet(j) ==
    /\ hist[j].op = "Put" /\ hist[j + 1].op = "Get"
    /\ hist[j + 1].p = hist[j].p /\ hist[j + 1].pid = hist[j].pid

\* The claim as the specification words it: Put(A) then Get() on the same
\* shard, nothing in between, returns A.
LocalLIFOAlways ==
    \A j \in 1..(Len(hist) - 1) : PutThenGet(j) => hist[j + 1].x = hist[j].x

\* C5: local LIFO, amended.  Put(A) then Get() on the same shard, nothing in
\* between, returns A when the private slot was empty at the Put; when it
\* held an object B, A went to the head of the chain and the Get returns B.
\* In general a Get that finds something in its own shard returns the private
\* slot's object if there is one, else the head of the chain.
LocalLIFO ==
    /\ [](\A j \in 1..(Len(hist) - 1) :
            PutThenGet(j) =>
               /\ hist[j + 1].src = "private"
               /\ hist[j].src = "private" => hist[j + 1].x = hist[j].x
               /\ hist[j].src = "shared" =>
                    /\ hist[j + 1].x # hist[j].x
                    /\ After(j + 1) => hist[j].x \in Stored(heap)
                    /\ (j > 1 /\ hist[j - 1].op = "Put" /\ hist[j - 1].p = hist[j].p
                          /\ hist[j - 1].pid = hist[j].pid /\ hist[j - 1].src = "private")
                         => hist[j + 1].x = hist[j - 1].x)
    /\ [][\A t \in Goroutines :
            (g[t].pc = "Get_local" /\ g'[t].pc # "Get_local"
                /\ InBounds(g[t].l, g[t].pid)) =>
               LET x == LocalChoice(indexLocal(g[t].l, g[t].pid))
               IN IF x = Nil
                  THEN g'[t].pc = "getSlow_l" /\ held' = held
                  ELSE g'[t].pc = "idle" /\ held' = [held EXCEPT ![x] = @ + 1]]_vars

\* Put(B), Put(A) and Get() on one shard: the Get returned B.
PutPutGet ==
    /\ After(3)
    /\ PutThenGet(2) /\ hist[2].src = "shared"
    /\ hist[1].op = "Put" /\ hist[1].pid = hist[2].pid
    /\ hist[3].x = hist[1].x

\* The history is Put(A) on a shard, one poolCleanup, and a Get on that shard.
PutRotateGet ==
    /\ After(3)
    /\ hist[1].op = "Put" /\ hist[2].op = "poolCleanup" /\ hist[3].op = "Get"
    /\ hist[3].p = hist[1].p /\ hist[3].pid = hist[1].pid

\* C6: single-rotation survival.  After Put(A) on a shard, one poolCleanup
\* and nothing else, a Get on that shard returns A, taken from the victim
\* cache; the primary table was dropped by the rotation and the Get has
\* allocated a new, empty one.
SurvivesOneRotation ==
    PutRotateGet =>
        LET p == hist[1].p IN
        /\ hist[3].x = hist[1].x /\ hist[3].src = "victim"
        /\ pool[p].local # Nil /\ pool[p].local # pool[p].victim
        /\ heap[pool[p].local] = makeLocal(gomaxprocs)
        /\ pool[p].localSize = gomaxprocs
        /\ allPools = <<p>>

\* Put(A) on shard 0, a rotation, and the Get on shard 0.
RotatedOnShard0 == PutRotateGet /\ hist[1].pid = 0

\* The history is Put(A) and two poolCleanups.
PutRotateRotate ==
    /\ After(3)
    /\ hist[1].op = "Put" /\ hist[2].op = "poolCleanup" /\ hist[3].op = "poolCleanup"

\* C7: double-rotation eviction.  No table a pool or a goroutine can reach
\* holds an object through two rotations, whatever Gets and Puts of other
\* objects run in between: after the second rotation the object is in no
\* table, so no Get returns it.  After Put(A) and two rotations A is gone and
\* the pool has no victim cache.
EvictedAfterTwo ==
    /\ \A x \in Items : age[x] < 2
    /\ PutRotateRotate =>
          /\ hist[1].x \notin Stored(heap)
          /\ Places(hist[1].x) = {}
          /\ held[hist[1].x] = 0
          /\ pool[hist[1].p].victim = Nil /\ pool[hist[1].p].victimSize = 0

\* Put(A), a rotation that moved A to the victim cache, and a second one.
TwiceRotated == PutRotateRotate /\ oldPools = <<>> /\ allPools = <<>>

\* The history is two Puts on one shard and a Get of the pool on another.
PutPutGetElsewhere ==
    /\ After(3)
    /\ hist[1].op = "Put" /\ hist[2].op = "Put" /\ hist[3].op = "Get"
    /\ hist[2].p = hist[1].p /\ hist[2].pid = hist[1].pid
    /\ hist[3].p = hist[1].p /\ hist[3].pid # hist[1].pid

\* C8: steal correctness.  With the private slot of a shard filled, Put(A) on
\* that shard leaves A on the shard's chain; a Get on another shard, whose
\* private slot and chain are empty, returns A, popped from the tail of that
\* chain, and A is then in no table: no later Get returns it unless it is Put
\* again.
StealTakes ==
    PutPutGetElsewhere =>
        /\ hist[1].src = "private" /\ hist[2].src = "shared"
        /\ hist[3].x = hist[2].x /\ hist[3].src = "steal"
        /\ Places(hist[2].x) = {} /\ held[hist[2].x] = 1
        /\ Cardinality(Places(hist[1].x)) = 1

\* Put(B) and Put(A) on shard 0, then the Get on shard 1.
StolenByShard1 == PutPutGetElsewhere /\ hist[1].pid = 0 /\ hist[3].pid = 1

\* The history is Put(A), a GOMAXPROCS that raised the number of Ps, and a Get
\* on a P the table of the Put has no shard for.
PutGrowGet ==
    /\ After(3)
    /\ hist[1].op = "Put" /\ hist[2].op = "GOMAXPROCS" /\ hist[3].op = "Get"
    /\ hist[3].p = hist[1].p
    /\ hist[2].pid > hist[2].x /\ hist[3].pid >= hist[2].x

\* C9: a resize discards safely.  A table is replaced only by pinSlow, for a
\* pid that is not below the published size, and the table installed is new
\* and empty with one shard per P; a Get that runs into this after Put(A)
\* misses (A was in the old table and is in no table any more); no access
\* falls outside the table it indexes, and no object is handed out twice.
ResizeDiscards ==
    /\ [](/\ NoFault
          /\ \A x \in Items : held[x] <= 1
          /\ PutGrowGet =>
                /\ hist[3].x = Miss(hist[3].p)
                /\ hist[1].x \notin Stored(heap) /\ held[hist[1].x] = 0
                /\ heap[pool[hist[3].p].local] = makeLocal(gomaxprocs)
                /\ pool[hist[3].p].localSize = gomaxprocs)
    /\ [][\A p \in Pools :
            (pool'[p].local # pool[p].local /\ pool'[p].local # Nil) =>
               /\ heap'[pool'[p].local] = makeLocal(gomaxprocs)
               /\ heap[pool'[p].local] = <<>>
               /\ \E t \in Goroutines :
                     /\ g[t].pc = "pinSlow_lock" /\ g[t].p = p
                     /\ g'[t].pid >= pool[p].localSize]_vars

\* Put(A) on shard 0 with one P, GOMAXPROCS(2), and the Get on shard 1.
GrewThenMissed == PutGrowGet /\ hist[1].pid = 0 /\ hist[3].pid = 1

PutCopyGet ==
    /\ After(3)
    /\ hist[1].op = "Put" /\ hist[2].op = "Copy" /\ hist[3].op = "Get"
    /\ hist[1].p \in Pools /\ hist[2].p = hist[1].p
    /\ hist[3].p = Dup /\ hist[3].pid = hist[1].pid

ChainsEmpty(l) == l # Nil => \A k \in 1..Len(heap[l]) : heap[l][k].shared = <<>>

\* C11: unpin before New.  While New runs the goroutine is not pinned; a Get
\* goes on to call New only from one of the two places where getSlow returns
\* nil (the victim cache skipped, the victim cache scanned), pinned until that
\* step and unpinned by it.  When the Get ran alone, it leaves the shard of
\* its P without a private object, every chain of the current table empty and
\* the victim cache without a shard for its P or marked empty.
UnpinBeforeNew ==
    /\ [](/\ \A t \in Goroutines : g[t].pc = "Get_New" => ~Pinned(t)
          /\ \A n \in 1..MaxHist :
               (After(n) /\ hist[n].op = "Get" /\ hist[n].src = "New") =>
                  LET p == hist[n].p
                      l == pool[p].local
                  IN /\ l # Nil /\ ChainsEmpty(l)
                     /\ InBounds(l, hist[n].pid)
                     /\ indexLocal(l, hist[n].pid).private = Nil
                     /\ pool[p].victimSize <= hist[n].pid)
    /\ [][\A t \in Goroutines :
            (g'[t].pc = "Get_New" /\ g[t].pc # "Get_New") =>
               /\ g[t].pc \in {"victim", "victim_mark"}
               /\ Pinned(t) /\ ~Pinned(t)'
               /\ g[t].l = Nil /\ g'[t].locals = Nil]_vars

\* New is running in one goroutine while another one is pinned.
NewWhileOtherPinned ==
    \E t, u \in Goroutines :
        /\ g[t].pc = "Get_New" /\ g[t].at >= 0 /\ ~Pinned(t)
        /\ u # t /\ Pinned(u)

\* The number of times k occurs in the slice s.
Count(s, k) == Cardinality({i \in 1..Len(s) : s[i] = k})

\* The slice s holds the elements of t and d more copies of x.
Holds(s, t, x, d) ==
    \A k \in Keys : Count(s, k) = Count(t, k) + (IF k = x THEN d ELSE 0)

\* C12: container/heap.  Push, Pop, Remove(i) for 0 <= i < Len and Fix(i)
\* after a change of element i, called on a heap, leave a heap; Init makes a
\* heap of any contents; Pop returns a least element and shortens the slice
\* by one.  Every call keeps the elements: Push adds x, Pop and Remove take
\* out the element they return, Init and Fix only reorder.
HeapInvariant ==
    /\ hres.op # "none" => HeapOrdered(hp)
    /\ hres.op \in {"Init", "Fix"} => Holds(hp, hres.before, 0, 0)
    /\ hres.op = "Push" => Holds(hp, hres.before, hres.x, 1)
    /\ hres.op = "Pop" =>
          /\ \A k \in 1..Len(hres.before) : hres.x <= hres.before[k]
          /\ Len(hp) = Len(hres.before) - 1
          /\ Holds(hres.before, hp, hres.x, 1)
    /\ hres.op = "Remove" =>
          /\ hres.x = hres.before[hres.i + 1]
          /\ Len(hp) = Len(hres.before) - 1
          /\ Holds(hres.before, hp, hres.x, 1)

\* Remove(3) on a heap of six elements whose last element is less than the
\* parent of position 3: the element put at 3 went up, to position 1.
RemovedWithUp ==
    /\ hres.op = "Remove" /\ hres.i = 3 /\ Len(hres.before) = 6
    /\ hres.before[6] < hres.before[2]
    /\ hp[2] = hres.before[6] /\ hp[4] = hres.before[2]

\* The elements of l in order: from l.Front() by e.Next(), fuel steps at most.
RECURSIVE Walk(_, _, _)
Walk(m, e, fuel) ==
    IF e = Nil \/ fuel = 0 THEN <<>>
    ELSE <<e>> \o Walk(m, listNext(m, e), fuel - 1)

Members(l) == Walk(Mem(el, llen), Front(Mem(el, llen), l), MaxElems + 1)

\* The ring of l: a zero List has no element; an initialized one links its
\* sentinel and its elements both ways, its elements are the Elements whose
\* list field is l, and len counts them.
RingOK(l) ==
    LET ms   == Members(l)
        ring == {ms[k] : k \in 1..Len(ms)} \cup {Root(l)}
    IN /\ Len(ms) = llen[l] /\ Len(ms) <= MaxElems
       /\ {e \in Elems : el[e].list = l} = ring \ {Root(l)}
       /\ IF el[Root(l)].next = Nil
          THEN el[Root(l)].prev = Nil /\ ms = <<>>
          ELSE \A n \in ring :
                  /\ el[n].next \in ring /\ el[n].prev \in ring
                  /\ el[el[n].next].prev = n /\ el[el[n].prev].next = n

\* The call recorded in c names an element or a mark that is not of its list.
Foreign(c) ==
    \/ c.op \in {"InsertBefore", "InsertAfter", "MoveBefore", "MoveAfter"}
          /\ el[c.mark].list # c.l
    \/ c.op \in {"Remove", "MoveToFront", "MoveToBack", "MoveBefore", "MoveAfter"}
          /\ el[c.e].list # c.l

\* C13: container/list.  After any sequence of PushFront, PushBack,
\* InsertBefore, InsertAfter, Remove, MoveToFront, MoveToBack, MoveBefore and
\* MoveAfter the ring of every list is consistent (e.next.prev = e,
\* e.prev.next = e and e.list = l for its elements) and Len() is the number of
\* elements reached from Front() by Next(); a call whose element or mark is
\* not of the list changes nothing.
ListConsistent ==
    /\ [](\A l \in Lists : RingOK(l))
    /\ [][Foreign(lres') => el' = el /\ llen' = llen]_vars

\* MoveBefore(e, mark) on a list of two elements with a mark of the other
\* list: refused.
ForeignMarkRefused ==
    /\ lres.op = "MoveBefore"
    /\ el[lres.e].list = lres.l /\ llen[lres.l] = 2
    /\ el[lres.mark].list \notin {Nil, lres.l}

\* The places a Get passes through, in the order of the code.
Stage(pc) ==
    CASE pc = "Get_local"    -> 1
      [] pc = "getSlow_l"    -> 2
      [] pc = "steal"        -> 3
      [] pc = "victim"       -> 4
      [] pc = "victim_steal" -> 5
      [] pc = "victim_mark"  -> 6
      [] OTHER               -> 0

\* The shard the steal loop of t is at.
StealShard(t) ==
    indexLocal(g[t].locals, StealIndex(g[t].pid, g[t].i, g[t].size))

\* C14: fallback order of Get.  A Get looks at its private slot and the head
\* of its chain first and leaves its shard only when both are empty; it
\* pops the tails of the shards of the current table one round after the
\* other, from round 0, going on only when the shard of the round was empty;
\* it reaches the victim cache only from the last round of that loop (or from
\* a table of size 0).  A Get that ran alone and returned a victim object
\* left nothing in its private slot nor in any chain of the current table.
FallbackOrder ==
    /\ [](\A n \in 1..MaxHist :
            (After(n) /\ hist[n].op = "Get" /\ pool[hist[n].p].local # Nil) =>
               LET l  == pool[hist[n].p].local
                   sh == indexLocal(l, hist[n].pid)
               IN /\ hist[n].src = "head" => sh.private = Nil
                  /\ hist[n].src = "steal" => sh.private = Nil /\ sh.shared = <<>>
                  /\ hist[n].src = "victim" => sh.private = Nil /\ ChainsEmpty(l))
    /\ [][\A t \in Goroutines :
            /\ (Stage(g[t].pc) > 0 /\ Stage(g'[t].pc) > 0) =>
                  Stage(g'[t].pc) \in {Stage(g[t].pc), Stage(g[t].pc) + 1}
            /\ Stage(g'[t].pc) > 1 => Stage(g[t].pc) > 0
            /\ (g[t].pc = "Get_local" /\ g'[t].pc = "getSlow_l") =>
                  LocalChoice(indexLocal(g[t].l, g[t].pid)) = Nil
            /\ (g[t].pc = "getSlow_l" /\ g'[t].pc = "steal") => g'[t].i = 0
            /\ (g[t].pc = "getSlow_l" /\ g'[t].pc = "victim") => g[t].size = 0
            /\ (g[t].pc = "steal" /\ g'[t] # g[t] /\ Stage(g'[t].pc) > 0) =>
                  /\ StealShard(t).shared = <<>>
                  /\ IF g[t].i + 1 < g[t].size
                     THEN g'[t].pc = "steal" /\ g'[t].i = g[t].i + 1
                     ELSE g'[t].pc = "victim"]_vars

\* A Get has missed in its shard and in every round of the steal loop, the
\* chains of the current table are empty, and the victim shard of its P holds
\* an object in its private slot.
VictimAfterMisses ==
    \E t \in Goroutines :
        /\ g[t].pc = "victim" /\ pool[g[t].p].local # Nil
        /\ pool[g[t].p].localSize = MaxProcs
        /\ ChainsEmpty(pool[g[t].p].local)
        /\ InBounds(pool[g[t].p].victim, g[t].pid)
        /\ g[t].pid < pool[g[t].p].victimSize
        /\ indexLocal(pool[g[t].p].victim, g[t].pid).private # Nil

Offset(pid, k, size) == IF pid + k >= size THEN pid + k - size ELSE pid + k

VictimHolds(t) ==
    LET v == pool[g[t].p].victim
    IN /\ v # Nil
       /\ \/ InBounds(v, g[t].pid) /\ indexLocal(v, g[t].pid).private # Nil
          \/ ~ChainsEmpty(v)

\* t's Get has finished without an object from the pool.
Missed(t) == g'[t].pc \in {"idle", "Get_New"} /\ held' = held

\* The claim as the specification words it: a Get that reaches the victim
\* cache does not miss there while the victim shard of its pid holds a
\* private item or a victim chain holds an item, whatever the pid and the
\* size of the victim table.
VictimAlwaysFinds ==
    [][\A t \in Goroutines :
          (g[t].pc = "victim" /\ g'[t] # g[t] /\ VictimHolds(t)) => ~Missed(t)]_vars

\* C16: the scan of the victim cache, amended.  A Get pinned to pid whose
\* local path and steal phase missed loads victimSize.  With pid >=
\* victimSize (the victim table is absent, marked empty, or smaller than or
\* equal to pid after the number of Ps grew) it misses without a look at the
\* victim table.  With pid < victimSize it takes the private item of the
\* victim shard pid if there is one, else pops the tails of the victim
\* shards pid, pid + 1, ... going round, and returns the first object; when
\* all are empty it sets victimSize to 0 and misses.
VictimScan ==
    /\ [](\A t \in Goroutines :
            g[t].pc = "victim_steal" =>
               /\ g[t].pid < g[t].size /\ g[t].i < g[t].size
               /\ g[t].size = Len(heap[g[t].locals]))
    /\ [][\A t \in Goroutines :
            LET p    == g[t].p
                v    == pool[p].victim
                size == pool[p].victimSize
            IN /\ (g[t].pc = "victim" /\ g'[t] # g[t]) =>
                     IF g[t].pid >= size
                     THEN /\ Missed(t) /\ pool' = pool
                          /\ v # Nil => heap'[v] = heap[v]
                     ELSE LET x == indexLocal(v, g[t].pid).private
                          IN IF x # Nil
                             THEN /\ g'[t].pc = "idle"
                                  /\ held' = [held EXCEPT ![x] = @ + 1]
                                  /\ heap'[v][g[t].pid + 1].private = Nil
                             ELSE /\ g'[t].pc = "victim_steal"
                                  /\ g'[t].locals = v /\ g'[t].size = size
                                  /\ g'[t].i = 0
                                  /\ held' = held /\ heap' = heap
               /\ (g[t].pc = "victim_steal" /\ g'[t] # g[t]) =>
                     LET k == Offset(g[t].pid, g[t].i, g[t].size)
                         c == indexLocal(g[t].locals, k).shared
                     IN IF c # <<>>
                        THEN /\ g'[t].pc = "idle"
                             /\ held' = [held EXCEPT ![Head(c)] = @ + 1]
                        ELSE /\ held' = held
                             /\ g'[t].pc = IF g[t].i + 1 < g[t].size
                                           THEN "victim_steal" ELSE "victim_mark"
                             /\ g'[t].i = IF g[t].i + 1 < g[t].size
                                          THEN g[t].i + 1 ELSE 0
               /\ (g[t].pc = "victim_mark" /\ g'[t] # g[t]) =>
                     /\ Missed(t)
                     /\ pool' = [pool EXCEPT ![p].victimSize = 0]]_vars

\* A Get pinned to P 1 has missed and is about to call New, while the victim
\* table, of one shard, holds an item; the Get has allocated the pool's new
\* table, of two shards.
VictimOutOfReach ==
    \E t \in Goroutines :
        /\ g[t].pc = "Get_New" /\ g[t].at = 1
        /\ pool[g[t].p].victimSize = 1 /\ pool[g[t].p].victim # Nil
        /\ heap[pool[g[t].p].victim][1] # NoShard
        /\ pool[g[t].p].localSize = 2

\* C17: survival until the next rotation.  An item of age 1 is in the victim
\* table: it was in the current table when the last rotation ran and no Get
\* has returned it since.  Whatever other Gets did in between, a Get whose
\* current-table paths missed and which is pinned to the index of the victim
\* shard that has the item in its private slot returns it, and a Get pinned
\* to any index does not miss while the item is in a victim chain.
SurvivesUntilNextRotation ==
    [][\A x \in Items : \A t \in Goroutines :
          LET v == pool[g[t].p].victim
          IN (age[x] = 1 /\ g[t].pc = "victim" /\ g'[t] # g[t] /\ v # Nil) =>
                /\ (InBounds(v, g[t].pid) /\ indexLocal(v, g[t].pid).private = x) =>
                      held'[x] = held[x] + 1
                /\ (\E k \in 1..Len(heap[v]) : x \in Range(heap[v][k].shared)) =>
                      ~Missed(t)]_vars

\* A Get pinned to P 0 is at the victim cache, which an earlier Get that
\* missed everywhere has marked empty, and the private slot of victim shard
\* 0 holds an item.
HiddenVictimItem ==
    \E t \in Goroutines :
        /\ g[t].pc = "victim" /\ g[t].pid = 0
        /\ pool[g[t].p].victimSize = 0 /\ pool[g[t].p].victim # Nil
        /\ heap[pool[g[t].p].victim][1].private # Nil

\* The step is a rotation: it is logged as one, or it changes a pool or the
\* registry while no goroutine moves.
IsRotation ==
    \/ seq' /\ Len(hist') = Len(hist) + 1 /\ hist'[Len(hist')].op = "poolCleanup"
    \/ /\ g' = g /\ gomaxprocs' = gomaxprocs
       /\ <<pool, allPools, oldPools>>' # <<pool, allPools, oldPools>>

\* C18: the effect of a rotation.  poolCleanup, for every registered pool:
\* the victim table it had is dropped (freed, not merged into the new one),
\* its current table and size become its victim table and victim size, and
\* its current table is reset to nil with size 0; after the rotation no pool
\* has a current table, allPools is empty and oldPools is the former
\* allPools.
RotationEffect ==
    [][IsRotation =>
          /\ allPools' = <<>> /\ oldPools' = allPools
          /\ \A p \in Pools : pool'[p].local = Nil /\ pool'[p].localSize = 0
          /\ \A p \in Range(allPools) :
                /\ pool[p].local # Nil
                /\ pool'[p].victim = pool[p].local
                /\ pool'[p].victimSize = pool[p].localSize
                /\ heap'[pool'[p].victim] = heap[pool[p].local]
                /\ pool[p].victim # Nil => heap'[pool[p].victim] = <<>>]_vars

\* Two Puts on shard 0 and a rotation: the table with both items is the
\* victim table, and the pool has left allPools for oldPools.
RotatedTwoItems ==
    /\ After(3)
    /\ hist[1].op = "Put" /\ hist[2].op = "Put" /\ hist[3].op = "poolCleanup"
    /\ hist[1].pid = 0 /\ hist[2].pid = 0 /\ hist[1].p = hist[2].p
    /\ pool[hist[1].p].victim # Nil /\ pool[hist[1].p].local = Nil
    /\ heap[pool[hist[1].p].victim][1] =
          [private |-> hist[1].x, shared |-> <<hist[2].x>>]
    /\ oldPools = <<hist[1].p>> /\ allPools = <<>>

\* The items the table at address a holds.
TableItems(a) ==
    {x \in Items : \E k \in 1..Len(heap[a]) :
        heap[a][k].private = x \/ x \in Range(heap[a][k].shared)}

\* The claim as the specification words it: a rotation changes nothing of a
\* pool that has no current table.
IdlePoolUntouched ==
    [][IsRotation =>
          \A p \in Pools : pool[p].local = Nil => pool'[p] = pool[p]]_vars

\* C19: a rotation and the pools without a current table, amended.  Such a
\* pool keeps its current table and size (nil and 0), but poolCleanup drops
\* its victim table: victim is nil and victimSize 0 afterwards, the table is
\* freed and the items it held are in no table any more.  Only a pool that
\* has no victim table either is left as it was.
IdlePoolLosesVictim ==
    [][IsRotation =>
          \A p \in Pools : pool[p].local = Nil =>
             /\ pool'[p] = [pool[p] EXCEPT !.victim = Nil, !.victimSize = 0]
             /\ pool[p].victim # Nil =>
                   /\ p \in Range(oldPools)
                   /\ heap'[pool[p].victim] = <<>>
                   /\ \A x \in TableItems(pool[p].victim) : x \notin Stored(heap')
             /\ pool[p].victim = Nil => pool'[p] = pool[p]]_vars

\* Put, rotation, rotation: the second rotation found the pool with a victim
\* table and no current table, and has left it with neither.
IdlePoolRotated ==
    /\ After(3)
    /\ hist[1].op = "Put" /\ hist[2].op = "poolCleanup" /\ hist[3].op = "poolCleanup"
    /\ pool[hist[1].p] = ZeroPool(pool[hist[1].p].New)
    /\ oldPools = <<>> /\ allPools = <<>>
    /\ \A a \in TableIds : heap[a] = <<>>

Shards(l) == IF l = Nil THEN 0 ELSE Len(heap[l])

\* C21: publication of the table.  The published size never exceeds the
\* table the published pointer leads to (the pointer is stored first), and a
\* reader, which loads the size first, indexes a table of at least the size
\* it loaded: the shard of its pid in pin, the shards (pid + i + 1) mod size
\* of the steal loop and the shards (pid + i) mod victimSize of the victim
\* loop are all inside the table indexed, under every interleaving with
\* another goroutine's pinSlow.
TablePublication ==
    /\ NoFault
    /\ \A p \in Pools :
          /\ pool[p].localSize <= Shards(pool[p].local)
          /\ pool[p].victimSize <= Shards(pool[p].victim)
    /\ \A t \in Goroutines :
          /\ (g[t].pc = "pin_l" /\ pinFast(g[t].pid, g[t].s)) =>
                g[t].s <= Shards(pool[g[t].p].local)
          /\ g[t].pc \in {"Put_store", "Get_local"} => InBounds(g[t].l, g[t].pid)
          /\ g[t].pc = "getSlow_l" => g[t].size <= Shards(pool[g[t].p].local)
          /\ g[t].pc = "steal" =>
                /\ g[t].size <= Shards(g[t].locals)
                /\ InBounds(g[t].locals, StealIndex(g[t].pid, g[t].i, g[t].size))
          /\ g[t].pc = "victim" =>
                (g[t].pid < pool[g[t].p].victimSize =>
                    InBounds(pool[g[t].p].victim, g[t].pid))
          /\ g[t].pc = "victim_steal" =>
                /\ g[t].size <= Shards(g[t].locals)
                /\ InBounds(g[t].locals, VictimIndex(g[t].pid, g[t].i, g[t].size))

\* A reader has loaded the size 1 and then the pointer to the table of two
\* shards that another goroutine, still in pinSlow, has stored without having
\* stored its size yet.
NewerTableSeen ==
    \E t, u \in Goroutines :
        /\ t # u
        /\ g[t].pc = "pinSlow_size" /\ g[t].p = g[u].p
        /\ g[u].pc \in {"Put_store", "Get_local"}
        /\ g[u].l = pool[g[u].p].local
        /\ pool[g[u].p].localSize = 1 /\ Shards(g[u].l) = 2

\* C22: locking discipline.  A goroutine whose pid is below the size pin
\* loaded goes on to its shard without touching allPoolsMu.  The mutex is
\* taken only in pinSlow, entered from pin when the pid is not below that
\* size, and only by a goroutine that is not pinned: whoever waits for the
\* mutex is unpinned, and the holder is in pinSlow, pinned again, about to
\* publish the size and unlock.
LockingDiscipline ==
    /\ [](/\ allPoolsMu \in Goroutines \cup {0}
          /\ \A t \in Goroutines :
                /\ g[t].pc = "pinSlow_lock" => ~Pinned(t)
                /\ allPoolsMu = t <=> g[t].pc = "pinSlow_size")
    /\ [][\A t \in Goroutines :
            /\ (g[t].pc = "pin_l" /\ g'[t] # g[t]) =>
                  IF g[t].pid < g[t].s
                  THEN /\ g'[t].pc \in {"Put_store", "Get_local"}
                       /\ g'[t].pid = g[t].pid
                       /\ allPoolsMu' = allPoolsMu
                  ELSE g'[t].pc = "pinSlow_lock" /\ allPoolsMu' = allPoolsMu
            /\ (g'[t].pc = "pinSlow_lock" /\ g[t].pc # "pinSlow_lock") =>
                  g[t].pc = "pin_l"
            /\ (allPoolsMu' = t /\ allPoolsMu # t) =>
                  /\ allPoolsMu = 0
                  /\ g[t].pc = "pinSlow_lock" /\ ~Pinned(t)
            /\ (g[t].pc \notin {"pinSlow_lock", "pinSlow_size"} /\ g'[t] # g[t]) =>
                  allPoolsMu' = allPoolsMu]_vars

\* One goroutine holds the mutex in pinSlow while the other, unpinned, waits
\* for it.
WaitsUnpinned ==
    \E t, u \in Goroutines :
        /\ allPoolsMu = t /\ g[t].pc = "pinSlow_size" /\ Pinned(t)
        /\ g[u].pc = "pinSlow_lock" /\ ~Pinned(u)
        /\ FreePs # {}

\* The places of x in the shard sh: 0 for the private slot, j for position j
\* of the chain.
ShardPlaces(sh, x) ==
    (IF sh.private = x THEN {0} ELSE {}) \cup
        {j \in 1..Len(sh.shared) : sh.shared[j] = x}

\* C23: Put placement.  The store of a Put of x pinned to shard i puts x in
\* the private slot of shard i exactly when that slot is empty, and leaves
\* the chain alone then; otherwise it leaves the private slot as it is and
\* pushes x on the head of the chain of shard i.  Afterwards x is at exactly
\* one place of the shard.  (The table is the one pin loaded; when growth
\* has replaced it meanwhile, nothing refers to it after the Put returns.)
PutPlacement ==
    [][\A t \in Goroutines :
          (g[t].pc = "Put_store" /\ g'[t] # g[t]) =>
             LET sh  == indexLocal(g[t].l, g[t].pid)
                 x   == g[t].x
             IN /\ x # Nil /\ g'[t].pc = "idle"
                /\ heap'[g[t].l] # <<>> =>
                      LET new == heap'[g[t].l][g[t].pid + 1]
                      IN /\ IF sh.private = Nil
                            THEN new.private = x /\ new.shared = sh.shared
                            ELSE /\ new.private = sh.private
                                 /\ popHead(new.shared) = [x |-> x, c |-> sh.shared]
                         /\ Cardinality(ShardPlaces(new, x)) = 1
                /\ heap'[g[t].l] = <<>> => pool[g[t].p].local # g[t].l]_vars

\* Two Puts on one shard: the second found the private slot full and its
\* value is at the head of the chain.
PutOnFullSlot ==
    /\ After(2)
    /\ hist[1].op = "Put" /\ hist[2].op = "Put"
    /\ hist[1].p = hist[2].p /\ hist[1].pid = hist[2].pid
    /\ hist[1].src = "private" /\ hist[2].src = "shared"
    /\ indexLocal(pool[hist[1].p].local, hist[1].pid) =
          [private |-> hist[1].x, shared |-> <<hist[2].x>>]

\* C24: the frame of Put.  The steps of a Put that finds a shard for its pid
\* (the call, pin's fast path and the store) leave every pool's table
\* pointer and size, victim table and victim size, the registry and the
\* mutex as they are, and of the tables they change nothing but the shard of
\* the Put's pid in the table pin loaded: its private slot or the head of
\* its chain.  (A table nothing refers to any more is freed by the collector.)
PutFrame ==
    [][\A t \in Goroutines :
          (/\ g'[t].op = "Put" \/ g[t].op = "Put"
           /\ g[t].pc \in {"idle", "pin_l", "Put_store"}
           /\ g[t].pc = "pin_l" => pinFast(g[t].pid, g[t].s)
           /\ g'[t] # g[t]) =>
             /\ pool' = pool
             /\ allPools' = allPools /\ oldPools' = oldPools
             /\ allPoolsMu' = allPoolsMu
             /\ \A a \in TableIds :
                   heap'[a] # heap[a] =>
                      \/ /\ heap'[a] = <<>>
                         /\ \A p \in Pools : a \notin {pool[p].local, pool[p].victim}
                      \/ /\ g[t].pc = "Put_store" /\ a = g[t].l
                         /\ Len(heap'[a]) = Len(heap[a])
                         /\ \A k \in 1..Len(heap[a]) :
                               k # g[t].pid + 1 => heap'[a][k] = heap[a][k]
                         /\ LET old == heap[a][g[t].pid + 1]
                                new == heap'[a][g[t].pid + 1]
                            IN \/ new.shared = old.shared
                               \/ /\ new.private = old.private
                                  /\ popHead(new.shared).c = old.shared]_vars

\* Put(A) on shard 0, then Put(B) on shard 1 of the same table of two
\* shards: the second Put found its shard and left shard 0 with A.
PutBesideFullShard ==
    /\ After(2)
    /\ hist[1].op = "Put" /\ hist[2].op = "Put" /\ hist[1].p = hist[2].p
    /\ hist[1].pid = 0 /\ hist[2].pid = 1
    /\ heap[pool[hist[1].p].local] =
          <<[private |-> hist[1].x, shared |-> <<>>],
            [private |-> hist[2].x, shared |-> <<>>]>>

\* The items the table at address a holds in the heap h.
ItemsIn(h, a) ==
    {x \in Items : \E k \in 1..Len(h[a]) :
        h[a][k].private = x \/ x \in Range(h[a][k].shared)}

\* C25: the victim generation is read-only between rotations.  The pointer
\* to the victim table changes only in a step in which no goroutine moves
\* and none is pinned, and which makes the current table the victim table
\* and empties allPools: a rotation.  In every other step the victim table
\* gains no item and no shard of it gains one: a private slot keeps its item
\* or becomes empty, a chain keeps its items or loses some; and every item
\* that leaves is handed to a Get.
VictimReadOnly ==
    [][\A p \in Pools :
          LET v == pool[p].victim
          IN IF pool'[p].victim # v
             THEN /\ g' = g /\ NobodyPinned
                  /\ pool'[p].victim = pool[p].local
                  /\ allPools' = <<>> /\ oldPools' = allPools
             ELSE v # Nil =>
                  /\ Len(heap'[v]) = Len(heap[v])
                  /\ \A k \in 1..Len(heap[v]) :
                        /\ heap'[v][k].private \in {heap[v][k].private, Nil}
                        /\ Range(heap'[v][k].shared) \subseteq Range(heap[v][k].shared)
                        /\ Len(heap'[v][k].shared) <= Len(heap[v][k].shared)
                  /\ ItemsIn(heap', v) \subseteq ItemsIn(heap, v)
                  /\ \A x \in ItemsIn(heap, v) \ ItemsIn(heap', v) :
                        /\ held'[x] = held[x] + 1
                        /\ \E t \in Goroutines :
                              g[t].op = "Get" /\ g[t].p = p /\ g'[t].pc = "idle"]_vars

\* Put(A), a rotation, and Put(B), which allocated the pool's new table: the
\* victim table holds A as the rotation left it and B is in the new table.
PutAfterRotation ==
    /\ After(3)
    /\ hist[1].op = "Put" /\ hist[2].op = "poolCleanup" /\ hist[3].op = "Put"
    /\ hist[1].p = hist[3].p /\ hist[1].pid = 0 /\ hist[3].pid = 0
    /\ ItemsIn(heap, pool[hist[1].p].victim) = {hist[1].x}
    /\ ItemsIn(heap, pool[hist[1].p].local) = {hist[3].x}
    /\ hist[1].x # hist[3].x

\* How far the call in the frame f has come: each step of a call takes it
\* further, one place for each round of the two loops.
Rank(f) ==
    CASE f.pc = "pin_l"        -> 1
      [] f.pc = "pinSlow_lock" -> 2
      [] f.pc = "pinSlow_size" -> 3
      [] f.pc = "Put_store"    -> 4
      [] f.pc = "Get_local"    -> 4
      [] f.pc = "getSlow_l"    -> 5
      [] f.pc = "steal"        -> 6 + f.i
      [] f.pc = "victim"       -> 6 + MaxProcs
      [] f.pc = "victim_steal" -> 7 + MaxProcs + f.i
      [] f.pc = "victim_mark"  -> 7 + 2 * MaxProcs
      [] f.pc = "Get_New"      -> 8 + 2 * MaxProcs
      [] OTHER                 -> 0

VictimMarking ==
    [][\A p \in Pools :
          LET v == pool[p].victim
          IN /\ pool'[p].victimSize # pool[p].victimSize =>
                   \/ g' = g /\ NobodyPinned /\ pool'[p].victim = pool[p].local
                   \/ /\ pool'[p].victimSize = 0 /\ pool'[p].victim = v
                      /\ v # Nil /\ ChainsEmpty(v)
                      /\ \E t \in Goroutines :
                            /\ g[t].pc = "victim_mark" /\ g[t].p = p
                            /\ g'[t] # g[t]
                            /\ indexLocal(v, g[t].pid).private = Nil
             /\ \A t \in Goroutines :
                   (g[t].p = p /\ g'[t] # g[t]) =>
                      /\ g[t].pc = "victim_mark" =>
                            /\ pool'[p] = [pool[p] EXCEPT !.victimSize = 0]
                            /\ Missed(t)
                      /\ (g[t].pc = "victim" /\ pool[p].victimSize = 0) =>
                            /\ Missed(t) /\ pool' = pool
                            /\ v # Nil => heap'[v] = heap[v]
                      /\ (g[t].pc = "victim_steal" /\ g'[t].pc = "victim_mark") =>
                            /\ g[t].i = g[t].size - 1
                            /\ v = g[t].locals /\ ChainsEmpty(v)
                            /\ indexLocal(v, g[t].pid).private = Nil]_vars

\* Put(A) on one shard, a rotation, and a Get on another shard that missed
\* everywhere: the victim cache is marked empty, the victim table is still
\* there and still holds A.
MarkedWithItem ==
    /\ After(3)
    /\ hist[1].op = "Put" /\ hist[2].op = "poolCleanup" /\ hist[3].op = "Get"
    /\ hist[3].p = hist[1].p /\ hist[3].pid # hist[1].pid
    /\ pool[hist[1].p].victimSize = 0 /\ pool[hist[1].p].victim # Nil
    /\ ItemsIn(heap, pool[hist[1].p].victim) = {hist[1].x}

====
